---- MODULE Spec2Model ----
(***************************************************************************)
(* Session-credential lifecycle of the vidcore backend: the user           *)
(* controller (registerUser, loginUser, logoutUser, refreshAccessToken,    *)
(* changeCurrentPassword, getCurrentUser, updateAccountDetails,            *)
(* updateUserAvatar, updateUserCoverImage, getUserChannelProfile,          *)
(* getWatchHistory), the verifyJWT middleware and                          *)
(* the token/password methods of the user model, as one state machine.     *)
(* A request is served by a slot of Procs; every await of a handler is a   *)
(* step boundary, so handlers of different slots interleave there.         *)
(***************************************************************************)
EXTENDS Integers, Sequences, FiniteSets, TLC

VARIABLES users, now, proc, last, issued, revoked, started, subscriptions, videos

vars == <<users, now, proc, last, issued, revoked, started, subscriptions, videos>>

\* ------------------------------------------------------------------ bounds
MaxTime == 1
MaxRequests == 5
MaxOverlapped == 4
MaxHistoryRequests == 5
MaxVideos == 2
MaxHistory == 2

Procs == {1, 2}

\* ------------------------------------------------- configuration (process.env)
ACCESS_TOKEN_SECRET == "access-secret"
REFRESH_TOKEN_SECRET == "refresh-secret"
ACCESS_TOKEN_EXPIRY == 1
REFRESH_TOKEN_EXPIRY == 2

\* ------------------------------------------------------------ input domains
Handles == {"a", "A", "b"}
Emails == {"x", "y"}
Passwords == {"p", "q"}
Absent == "undefined"

\* String.prototype.toLowerCase on the handles of the model
Lower(h) == IF h = "A" THEN "a" ELSE h

\* ------------------------------------------------------------------ tokens
\* A JWT is its signing key and its payload (sub, iat, exp, further claims).
\* NoToken stands for undefined / an absent cookie, Malformed for a string
\* that is no JWT, Forged(u) for a JWT signed with a key the server lacks.
NoToken == [key |-> "none", sub |-> 0, iat |-> 0, exp |-> 0, claims |-> <<>>]
Malformed == [key |-> "malformed", sub |-> 0, iat |-> 0, exp |-> 0, claims |-> <<>>]
Forged(u) == [key |-> "attacker", sub |-> u, iat |-> 0, exp |-> MaxTime + REFRESH_TOKEN_EXPIRY + 1, claims |-> <<>>]

\* jwt.sign(payload, secret, {expiresIn}): iat is the clock in whole seconds
JwtSign(sub, claims, secret, ttl, t) ==
  [key |-> secret, sub |-> sub, iat |-> t, exp |-> t + ttl, claims |-> claims]

\* jwt.verify(token, secret): decode, then signature, then expiry
\* jwt.verify had it not looked at exp
JwtVerifyIgnoringExpiry(token, secret, t) ==
  IF token.key \in {"none", "malformed"} THEN [ok |-> FALSE, message |-> "jwt malformed", sub |-> 0]
  ELSE IF token.key # secret THEN [ok |-> FALSE, message |-> "invalid signature", sub |-> 0]
  ELSE [ok |-> TRUE, message |-> "", sub |-> token.sub]

JwtVerify(token, secret, t) ==
  IF token.key \in {"none", "malformed"} THEN [ok |-> FALSE, message |-> "jwt malformed", sub |-> 0]
  ELSE IF token.key # secret THEN [ok |-> FALSE, message |-> "invalid signature", sub |-> 0]
  ELSE IF t >= token.exp THEN [ok |-> FALSE, message |-> "jwt expired", sub |-> 0]
  ELSE [ok |-> TRUE, message |-> "", sub |-> token.sub]

\* ---------------------------------------------------------------- passwords
\* bcrypt.hash / bcrypt.compare
BcryptHash(pw) == [alg |-> "bcrypt", of |-> pw]
\* bcrypt.compare had it said yes to everything
CompareAlwaysTrue(doc, pw) == TRUE

IsPasswordCorrect(doc, pw) == doc.password = BcryptHash(pw)

\* the pre-save hook had it stored the password as given
PreSavePlain(pw) == [alg |-> "plain", of |-> pw]

\* userSchema.pre("save"): a modified password is hashed before it is stored
PreSave(pw) == BcryptHash(pw)

\* --------------------------------------------------------------- user model
GenerateAccessToken(id, doc, t) ==
  JwtSign(id, <<doc.email, doc.username>>, ACCESS_TOKEN_SECRET, ACCESS_TOKEN_EXPIRY, t)

GenerateRefreshToken(id, t) ==
  JwtSign(id, <<>>, REFRESH_TOKEN_SECRET, REFRESH_TOKEN_EXPIRY, t)

UserIds == 1..Len(users)

\* User.findById
FindById(id) == IF id \in UserIds THEN id ELSE 0

\* User.findOne({$or: [{username}, {email}]}): the first document in store order.
\* The filter is cast by the schema, whose `lowercase: true` lowers username.
FindOne(username, email) ==
  LET hit == {i \in UserIds : users[i].username = Lower(username) \/ users[i].email = email}
  IN IF hit = {} THEN 0 ELSE CHOOSE i \in hit : \A j \in hit : i <= j

\* .select("-a -b"): the paths of the document that are set, without those
\* taken out; refreshToken is the one path that can be unset
Select(id, doc, minus) ==
  [id |-> id,
   fields |-> {f \in DOMAIN doc \ minus : f = "refreshToken" => doc.refreshToken # NoToken}]

\* a read with no select
Unselected(id) == Select(id, users[id], {})

\* findById(id).select("-password -refreshToken")
Sanitized(id) == Select(id, users[id], {"password", "refreshToken"})
NoUser == [id |-> 0, fields |-> {}]

\* no channel document in a reply
NoChannel == [id |-> 0, subscribersCount |-> 0, channelsSubscribedToCount |-> 0,
              isSubscribed |-> FALSE]

\* ---------------------------------------------------------------- responses
NoResp ==
  [op |-> "none", status |-> 0, message |-> "", presented |-> NoToken,
   accessToken |-> NoToken, refreshToken |-> NoToken, cookie |-> NoToken,
   user |-> NoUser, sub |-> 0, channel |-> NoChannel, history |-> <<>>,
   req |-> [username |-> Absent, email |-> Absent, password |-> Absent]]

Idle ==
  [pc |-> "idle", op |-> "none", uid |-> 0, tok |-> NoToken,
   acc |-> NoToken, ref |-> NoToken, channel |-> NoChannel, during |-> {},
   username |-> Absent, email |-> Absent, password |-> Absent, newPassword |-> Absent]

\* `last` is the reply the latest step sent, NoResp when it sent none
Silent == last' = NoResp

\* what a handler answers: asyncHandler passes an ApiError's statusCode and message on
Reply(p, r) ==
  /\ last' = r
  /\ proc' = [proc EXCEPT ![p] = Idle]

Failure(op, status, message) ==
  [NoResp EXCEPT !.op = op, !.status = status, !.message = message]

Fail(p, op, status, message) == Reply(p, Failure(op, status, message))

\* the lowest free slot takes the next request, while the budget lasts
Accept(p, budget) ==
  /\ proc[p].pc = "idle"
  /\ \A q \in Procs : q < p => proc[q].pc # "idle"
  /\ started < budget
  /\ started' = started + 1

Init ==
  /\ users = <<>>
  /\ now = 0
  /\ proc = [p \in Procs |-> Idle]
  /\ last = NoResp
  /\ issued = {}
  /\ revoked = {}
  /\ started = 0
  /\ subscriptions = {}
  /\ videos = <<>>

\* the wall clock, in the whole seconds jwt.sign and jwt.verify read; a second
\* that passes counts against the budget like a request taken
Tick(budget) ==
  /\ now < MaxTime
  /\ started < budget
  /\ now' = now + 1
  /\ started' = started + 1
  /\ Silent
  /\ UNCHANGED <<videos, subscriptions, users, proc, issued, revoked>>

\* what a client can put in a cookie, a header or a body: nothing, garbage, a
\* token signed with a foreign key, or any token a reply has handed out
TokenInputs == {NoToken, Malformed, Forged(1)} \cup issued

Headers ==
  {[scheme |-> "absent", tok |-> NoToken]} \cup
  {[scheme |-> s, tok |-> t] : s \in {"Bearer", "raw"}, t \in TokenInputs}

\* a property of a JS object that may be missing
Prop(obj, key) == IF key \in DOMAIN obj THEN obj[key] ELSE NoToken

\* verifyJWT had it looked at the Authorization header first
ExtractTokenHeaderFirst(cookie, header) ==
  IF header.scheme # "absent" /\ header.tok # NoToken THEN header.tok
  ELSE cookie

\* ------------------------------------------------------------- verifyJWT
\* req.cookies?.accessToken || req.header("Authorization")?.replace("Bearer ", "")
ExtractToken(cookie, header) ==
  IF cookie # NoToken THEN cookie
  ELSE IF header.scheme = "absent" THEN NoToken
  ELSE header.tok

\* verifyJWT had it verified with the refresh secret
VerifyJWTWithRefreshSecret(cookie, header) ==
  LET token == ExtractToken(cookie, header)
      decodedToken == JwtVerify(token, REFRESH_TOKEN_SECRET, now)
      user == FindById(decodedToken.sub)
  IN IF token = NoToken
       THEN [ok |-> FALSE, message |-> "Unauthorized request - No token found", user |-> 0, token |-> token]
     ELSE IF ~decodedToken.ok
       THEN [ok |-> FALSE, message |-> decodedToken.message, user |-> 0, token |-> token]
     ELSE IF user = 0
       THEN [ok |-> FALSE, message |-> "Invalid Access Token - User not found", user |-> 0, token |-> token]
     ELSE [ok |-> TRUE, message |-> "", user |-> user, token |-> token]

\* verifyJWT had it asked for a stored refresh token as well
VerifyJWTWithSession(cookie, header) ==
  LET token == ExtractToken(cookie, header)
      decodedToken == JwtVerify(token, ACCESS_TOKEN_SECRET, now)
      user == FindById(decodedToken.sub)
  IN IF token = NoToken
       THEN [ok |-> FALSE, message |-> "Unauthorized request - No token found", user |-> 0, token |-> token]
     ELSE IF ~decodedToken.ok
       THEN [ok |-> FALSE, message |-> decodedToken.message, user |-> 0, token |-> token]
     ELSE IF user = 0 \/ users[user].refreshToken = NoToken
       THEN [ok |-> FALSE, message |-> "Invalid Access Token - User not found", user |-> 0, token |-> token]
     ELSE [ok |-> TRUE, message |-> "", user |-> user, token |-> token]

VerifyJWT(cookie, header) ==
  LET token == ExtractToken(cookie, header)
      decodedToken == JwtVerify(token, ACCESS_TOKEN_SECRET, now)
      user == FindById(decodedToken.sub)
  IN IF token = NoToken
       THEN [ok |-> FALSE, message |-> "Unauthorized request - No token found", user |-> 0, token |-> token]
     ELSE IF ~decodedToken.ok
       THEN [ok |-> FALSE, message |-> decodedToken.message, user |-> 0, token |-> token]
     ELSE IF user = 0
       THEN [ok |-> FALSE, message |-> "Invalid Access Token - User not found", user |-> 0, token |-> token]
     ELSE [ok |-> TRUE, message |-> "", user |-> user, token |-> token]

\* req.user as verifyJWT leaves it for the handlers behind it
ReqUser(auth) == IF auth.ok THEN Sanitized(auth.user) ELSE NoUser

\* the verdicts verifyJWT can reach on the requests a client can send
Verdicts == {VerifyJWT(cookie, header) : cookie \in TokenInputs, header \in Headers}

\* the 401 verifyJWT throws
Unauthorized(op, auth) == [Failure(op, 401, auth.message) EXCEPT !.presented = auth.token]

\* a protected route: verifyJWT, then the handler at pc `then`
Protected(p, op, auth, locals, then) ==
  /\ IF auth.ok
       THEN /\ proc' = [proc EXCEPT ![p] = [locals EXCEPT !.pc = then, !.op = op,
                                                        !.uid = auth.user, !.tok = auth.token]]
            /\ Silent
       ELSE Reply(p, Unauthorized(op, auth))
  /\ UNCHANGED <<videos, subscriptions, users, now, issued, revoked>>

\* getCurrentUser behind verifyJWT: next() runs the handler in the same turn
GetCurrentUser(p, budget) ==
  /\ Accept(p, budget)
  /\ \E auth \in Verdicts :
       IF auth.ok
         THEN Reply(p, [NoResp EXCEPT !.op = "current", !.status = 200,
                                     !.message = "User fetched successfully",
                                     !.presented = auth.token,
                                     !.user = ReqUser(auth), !.sub = auth.user])
         ELSE Reply(p, Unauthorized("current", auth))
  /\ UNCHANGED <<videos, subscriptions, users, now, issued, revoked>>

\* the unique indexes turned off
UniqueIndexOff(username, email) == TRUE

\* ----------------------------------------------------------- registerUser
UniqueIndexFree(username, email) ==
  \A i \in UserIds : users[i].username # username /\ users[i].email # email

\* what registerUser decides before User.create: the ApiError it throws, or 0 to go on
RegisterCheck(username, email, password, avatar) ==
  LET go == [status |-> 0, message |-> "", username |-> username, email |-> email,
             password |-> password]
      no(status, message) == [status |-> status, message |-> message, username |-> Absent,
                              email |-> Absent, password |-> Absent]
  IN IF "" \in {username, email, password} THEN no(400, "All fields are required")
     ELSE IF FindOne(username, email) # 0
       THEN no(409, "User with email or username already exists")
     ELSE IF ~avatar THEN no(400, "Avatar file is required")
     ELSE go

RegisterStart(p, budget) ==
  /\ Accept(p, budget)
  /\ \E check \in {RegisterCheck(username, email, password, avatar) :
                     username \in Handles \cup {""}, email \in Emails \cup {""},
                     password \in {"p", ""}, avatar \in BOOLEAN} :
       IF check.status # 0
         THEN Fail(p, "register", check.status, check.message)
         ELSE /\ proc' = [proc EXCEPT ![p] = [Idle EXCEPT !.pc = "create", !.op = "register",
                                                         !.username = check.username,
                                                         !.email = check.email,
                                                         !.password = check.password]]
              /\ Silent
  /\ UNCHANGED <<videos, subscriptions, users, now, issued, revoked>>

\* User.create under the unique indexes, then findById(...).select(...) and the reply
RegisterCreate(p) ==
  LET me == proc[p]
      doc == [username |-> Lower(me.username), email |-> me.email,
              password |-> PreSave(me.password), refreshToken |-> NoToken,
              watchHistory |-> <<>>]
  IN /\ me.pc = "create"
     /\ IF UniqueIndexFree(doc.username, doc.email)
          THEN /\ users' = Append(users, doc)
               /\ Reply(p, [NoResp EXCEPT !.op = "register", !.status = 201,
                                          !.message = "User registered successfully",
                                          !.user = Select(Len(users) + 1, doc,
                                                          {"password", "refreshToken"}),
                                          !.sub = Len(users) + 1])
          ELSE /\ Fail(p, "register", 500, "E11000 duplicate key error")
               /\ UNCHANGED users
     /\ UNCHANGED <<videos, subscriptions, now, issued, revoked, started>>

\* -------------------------------------------------------------- loginUser
\* loginUser had it answered a wrong password like an unknown account
LoginCheckOneAnswer(username, email, password) ==
  LET user == FindOne(username, email)
  IN IF username = Absent /\ email = Absent
       THEN [status |-> 400, message |-> "username or email is required", user |-> 0]
     ELSE IF user = 0 \/ ~IsPasswordCorrect(users[user], password)
       THEN [status |-> 404, message |-> "User does not exist", user |-> 0]
     ELSE [status |-> 0, message |-> "", user |-> user]

\* what loginUser decides before it mints: the ApiError it throws, or 0 and the user
LoginCheck(username, email, password) ==
  LET user == FindOne(username, email)
  IN IF username = Absent /\ email = Absent
       THEN [status |-> 400, message |-> "username or email is required", user |-> 0]
     ELSE IF user = 0
       THEN [status |-> 404, message |-> "User does not exist", user |-> 0]
     ELSE IF ~IsPasswordCorrect(users[user], password)
       THEN [status |-> 401, message |-> "Invalid user credentials", user |-> 0]
     ELSE [status |-> 0, message |-> "", user |-> user]

LoginStart(p, budget) ==
  /\ Accept(p, budget)
  /\ \E username \in Handles \cup {Absent}, email \in Emails \cup {Absent},
        password \in Passwords :
       LET check == LoginCheck(username, email, password)
           req == [username |-> username, email |-> email, password |-> password]
       IN IF check.status # 0
            THEN Reply(p, [Failure("login", check.status, check.message) EXCEPT !.req = req])
            ELSE /\ proc' = [proc EXCEPT ![p] = [Idle EXCEPT !.pc = "gen", !.op = "login",
                                                            !.uid = check.user]]
                 /\ Silent
  /\ UNCHANGED <<videos, subscriptions, users, now, issued, revoked>>

\* ----------------------------------------- generateAccessAndRefereshTokens
\* the catch of generateAccessAndRefereshTokens throws ApiError(500); the
\* catch of refreshAccessToken turns whatever its try block threw into a 401
GenerateFailed(p) ==
  LET message == "Something went wrong while generating refresh and access token"
      status == IF proc[p].op = "refresh" THEN 401 ELSE 500
  IN Reply(p, [Failure(proc[p].op, status, message) EXCEPT !.presented = proc[p].tok,
                                                           !.sub = proc[p].uid])

\* findById, generateAccessToken, generateRefreshToken, user.refreshToken = ...
Generate(p) ==
  LET me == proc[p]
      user == FindById(me.uid)
      accessToken == GenerateAccessToken(user, users[user], now)
      refreshToken == GenerateRefreshToken(user, now)
  IN /\ me.pc = "gen"
     /\ IF user = 0
          THEN GenerateFailed(p)
          ELSE /\ proc' = [proc EXCEPT ![p] = [me EXCEPT !.pc = "save", !.acc = accessToken,
                                                         !.ref = refreshToken]]
               /\ Silent
     /\ UNCHANGED <<videos, subscriptions, users, now, issued, revoked, started>>

\* await user.save({validateBeforeSave: false}): writes the modified path
\* refreshToken, or fails in the store
Save(p) ==
  LET me == proc[p]
  IN /\ me.pc = "save"
     /\ \E stored \in BOOLEAN :
          IF stored
            THEN /\ users' = [users EXCEPT ![me.uid].refreshToken = me.ref]
                 /\ proc' = [proc EXCEPT ![p].pc = "respond"]
                 /\ Silent
            ELSE GenerateFailed(p) /\ UNCHANGED users
     /\ UNCHANGED <<videos, subscriptions, now, issued, revoked, started>>

\* the reply of loginUser (after findById(...).select(...)) and of refreshAccessToken,
\* which reads newRefreshToken off the {accessToken, refreshToken} it was returned
Respond(p) ==
  LET me == proc[p]
      tokens == [accessToken |-> me.acc, refreshToken |-> me.ref]
      newRefreshToken == Prop(tokens, "newRefreshToken")
  IN /\ me.pc = "respond"
     /\ IF me.op = "login"
          THEN Reply(p, [NoResp EXCEPT !.op = "login", !.status = 200,
                                      !.message = "User logged In Successfully",
                                      !.accessToken = tokens.accessToken,
                                      !.refreshToken = tokens.refreshToken,
                                      !.cookie = tokens.refreshToken,
                                      !.user = Sanitized(me.uid), !.sub = me.uid])
          ELSE Reply(p, [NoResp EXCEPT !.op = "refresh", !.status = 200,
                                      !.message = "Access token refreshed",
                                      !.presented = me.tok,
                                      !.accessToken = tokens.accessToken,
                                      !.refreshToken = newRefreshToken,
                                      !.cookie = newRefreshToken, !.sub = me.uid])
     /\ issued' = issued \cup ({last'.accessToken, last'.refreshToken} \ {NoToken})
     /\ UNCHANGED <<videos, subscriptions, users, now, revoked, started>>

\* ------------------------------------------------------ refreshAccessToken
\* req.cookies.refreshToken || req.body.refreshToken
CookieOrBody(cookie, body) == IF cookie # NoToken THEN cookie ELSE body

\* refreshAccessToken had it skipped the comparison with the stored token
RefreshCheckWithoutCompare(incomingRefreshToken) ==
  LET decodedToken == JwtVerify(incomingRefreshToken, REFRESH_TOKEN_SECRET, now)
      user == FindById(decodedToken.sub)
  IN IF incomingRefreshToken = NoToken THEN "Unauthorized request"
     ELSE IF ~decodedToken.ok THEN decodedToken.message
     ELSE IF user = 0 THEN "Invalid refresh token"
     ELSE ""

\* what refreshAccessToken decides before it mints: the 401 it throws, or "" to go on
RefreshCheck(incomingRefreshToken) ==
  LET decodedToken == JwtVerify(incomingRefreshToken, REFRESH_TOKEN_SECRET, now)
      user == FindById(decodedToken.sub)
  IN IF incomingRefreshToken = NoToken THEN "Unauthorized request"
     ELSE IF ~decodedToken.ok THEN decodedToken.message
     ELSE IF user = 0 THEN "Invalid refresh token"
     ELSE IF incomingRefreshToken # users[user].refreshToken THEN "Refresh token is expired or used"
     ELSE ""

\* refreshAccessToken had it unset the stored token of an account whose token
\* came back stale
RefreshStartRevoking(p, budget) ==
  /\ Accept(p, budget)
  /\ \E incomingRefreshToken \in {CookieOrBody(cookie, body) : cookie, body \in TokenInputs} :
       LET message == RefreshCheck(incomingRefreshToken)
       IN IF message # ""
            THEN /\ Reply(p, [Failure("refresh", 401, message) EXCEPT
                                !.presented = incomingRefreshToken])
                 /\ users' = [u \in UserIds |->
                                IF message = "Refresh token is expired or used"
                                     /\ u = incomingRefreshToken.sub
                                  THEN [users[u] EXCEPT !.refreshToken = NoToken]
                                  ELSE users[u]]
            ELSE /\ proc' = [proc EXCEPT ![p] = [Idle EXCEPT !.pc = "gen", !.op = "refresh",
                                                            !.uid = incomingRefreshToken.sub,
                                                            !.tok = incomingRefreshToken]]
                 /\ Silent
                 /\ UNCHANGED users
  /\ UNCHANGED <<videos, subscriptions, now, issued, revoked>>

RefreshStart(p, budget) ==
  /\ Accept(p, budget)
  /\ \E incomingRefreshToken \in {CookieOrBody(cookie, body) : cookie, body \in TokenInputs} :
       LET message == RefreshCheck(incomingRefreshToken)
       IN IF message # ""
            THEN Reply(p, [Failure("refresh", 401, message) EXCEPT
                             !.presented = incomingRefreshToken])
            ELSE /\ proc' = [proc EXCEPT ![p] = [Idle EXCEPT !.pc = "gen", !.op = "refresh",
                                                            !.uid = incomingRefreshToken.sub,
                                                            !.tok = incomingRefreshToken]]
                 /\ Silent
  /\ UNCHANGED <<videos, subscriptions, users, now, issued, revoked>>

\* -------------------------------------------------------------- logoutUser
LogoutStart(p, budget) ==
  /\ Accept(p, budget)
  /\ \E auth \in Verdicts : Protected(p, "logout", auth, Idle, "unset")

\* findByIdAndUpdate(req.user._id, {$unset: {refreshToken: 1}}), then the reply
Logout(p) ==
  LET me == proc[p]
  IN /\ me.pc = "unset"
     /\ users' = [users EXCEPT ![me.uid].refreshToken = NoToken]
     /\ revoked' = revoked \cup {t \in issued : t.sub = me.uid /\ t.key = REFRESH_TOKEN_SECRET}
     /\ Reply(p, [NoResp EXCEPT !.op = "logout", !.status = 200, !.message = "User logged Out",
                                !.presented = me.tok, !.sub = me.uid])
     /\ UNCHANGED <<videos, subscriptions, now, issued, started>>

\* --------------------------------------------------- changeCurrentPassword
ChangePasswordStart(p, budget) ==
  /\ Accept(p, budget)
  /\ \E auth \in Verdicts :
       \E locals \in {IF auth.ok THEN [Idle EXCEPT !.password = oldPassword,
                                                   !.newPassword = newPassword]
                                  ELSE Idle : oldPassword, newPassword \in Passwords} :
         Protected(p, "password", auth, locals, "check")

\* findById, isPasswordCorrect(oldPassword), user.password = newPassword
ChangePasswordCheck(p) ==
  LET me == proc[p]
  IN /\ me.pc = "check"
     /\ IF IsPasswordCorrect(users[me.uid], me.password)
          THEN proc' = [proc EXCEPT ![p].pc = "hash"] /\ Silent
          ELSE Fail(p, "password", 400, "Invalid old password")
     /\ UNCHANGED <<videos, subscriptions, users, now, issued, revoked, started>>

\* changeCurrentPassword had it replied without user.password = newPassword
ChangePasswordSaveNothing(p) ==
  LET me == proc[p]
  IN /\ me.pc = "hash"
     /\ Reply(p, [NoResp EXCEPT !.op = "password", !.status = 200,
                                !.message = "Password changed successfully",
                                !.presented = me.tok, !.sub = me.uid])
     /\ UNCHANGED <<videos, subscriptions, users, now, issued, revoked, started>>

\* changeCurrentPassword had its save also dropped the refresh token
ChangePasswordSaveRevoking(p) ==
  LET me == proc[p]
  IN /\ me.pc = "hash"
     /\ users' = [users EXCEPT ![me.uid].password = PreSave(me.newPassword),
                               ![me.uid].refreshToken = NoToken]
     /\ Reply(p, [NoResp EXCEPT !.op = "password", !.status = 200,
                                !.message = "Password changed successfully",
                                !.presented = me.tok, !.sub = me.uid])
     /\ UNCHANGED <<videos, subscriptions, now, issued, revoked, started>>

\* user.save(): the pre-save hook hashes the modified password
ChangePasswordSave(p) ==
  LET me == proc[p]
  IN /\ me.pc = "hash"
     /\ users' = [users EXCEPT ![me.uid].password = PreSave(me.newPassword)]
     /\ Reply(p, [NoResp EXCEPT !.op = "password", !.status = 200,
                                !.message = "Password changed successfully",
                                !.presented = me.tok, !.sub = me.uid])
     /\ UNCHANGED <<videos, subscriptions, now, issued, revoked, started>>

\* ---------------------------------------------------- updateAccountDetails
\* verifyJWT, then the check of the body: the ApiError thrown, or 0 to go on
UpdateCheck(fullName, email) ==
  IF ~fullName \/ email = "" THEN [status |-> 400, message |-> "All fields are required", email |-> Absent]
  ELSE [status |-> 0, message |-> "", email |-> email]

UpdateStart(p, budget) ==
  /\ Accept(p, budget)
  /\ \E auth \in Verdicts :
       \E check \in {UpdateCheck(fullName, email) : fullName \in BOOLEAN, email \in Emails \cup {""}} :
         IF ~auth.ok THEN Reply(p, Unauthorized("details", auth))
         ELSE IF check.status # 0
           THEN Reply(p, [Failure("details", check.status, check.message) EXCEPT
                            !.presented = auth.token, !.sub = auth.user])
         ELSE /\ proc' = [proc EXCEPT ![p] = [Idle EXCEPT !.pc = "update", !.op = "details",
                                                         !.uid = auth.user, !.tok = auth.token,
                                                         !.email = check.email]]
              /\ Silent
  /\ UNCHANGED <<videos, subscriptions, users, now, issued, revoked>>

\* the unique index on email, as findByIdAndUpdate meets it
UniqueEmailFree(id, email) == \A i \in UserIds \ {id} : users[i].email # email

\* findByIdAndUpdate(req.user?._id, {$set: {fullName, email}}, {new: true})
\* .select("-password") and the reply
UpdateAccountDetails(p) ==
  LET me == proc[p]
  IN /\ me.pc = "update"
     /\ IF UniqueEmailFree(me.uid, me.email)
          THEN /\ users' = [users EXCEPT ![me.uid].email = me.email]
               /\ Reply(p, [NoResp EXCEPT !.op = "details", !.status = 200,
                                          !.message = "Account details updated successfully",
                                          !.presented = me.tok,
                                          !.user = Select(me.uid, users'[me.uid], {"password"}),
                                          !.sub = me.uid])
          ELSE /\ Fail(p, "details", 500, "E11000 duplicate key error")
               /\ UNCHANGED users
     /\ UNCHANGED <<videos, subscriptions, now, issued, revoked, started>>

\* --------------------------------- updateUserAvatar, updateUserCoverImage
\* verifyJWT, then the check of req.file?.path; op is the handler, named by the
\* path it sets
ImageStart(p, budget) ==
  /\ Accept(p, budget)
  /\ \E auth \in Verdicts : \E op \in {"avatar", "coverImage"} : \E file \in BOOLEAN :
       IF ~auth.ok THEN Reply(p, Unauthorized(op, auth))
       ELSE IF ~file
         THEN Reply(p, [Failure(op, 400, IF op = "avatar" THEN "Avatar file is missing"
                                                          ELSE "Cover image file is missing")
                          EXCEPT !.presented = auth.token, !.sub = auth.user])
       ELSE /\ proc' = [proc EXCEPT ![p] = [Idle EXCEPT !.pc = "upload", !.op = op,
                                                       !.uid = auth.user, !.tok = auth.token]]
            /\ Silent
  /\ UNCHANGED <<videos, subscriptions, users, now, issued, revoked>>

\* findById, uploadOnCloudinary (null when the upload fails, and reading .url
\* off it throws), then findByIdAndUpdate(..., {$set: {avatar | coverImage}},
\* {new: true}).select("-password") and the reply. The image paths are not
\* among the paths a document has here, so the store is left as it is.
ImageUpdate(p) ==
  LET me == proc[p]
  IN /\ me.pc = "upload"
     /\ \E uploaded \in BOOLEAN :
          IF FindById(me.uid) = 0 THEN Fail(p, me.op, 404, "User not found")
          ELSE IF ~uploaded
            THEN Fail(p, me.op, 500, "Cannot read properties of null (reading 'url')")
          ELSE Reply(p, [NoResp EXCEPT !.op = me.op, !.status = 200,
                                      !.message = IF me.op = "avatar"
                                                    THEN "Avatar image updated successfully"
                                                    ELSE "Cover image updated successfully",
                                      !.presented = me.tok,
                                      !.user = Select(me.uid, users[me.uid], {"password"}),
                                      !.sub = me.uid])
     /\ UNCHANGED <<videos, subscriptions, users, now, issued, revoked, started>>

\* ------------------------------------------------------- subscription edges
\* one row per ordered pair (subscriber, channel), put in by a subscribe of the
\* logged-in user and taken out by an unsubscribe
Edge(subscriber, channel) == [subscriber |-> subscriber, channel |-> channel]

\* the aggregations that are between their two $lookup stages run over the
\* state s of the collection as well
Overlapped(s) ==
  [q \in Procs |-> IF proc[q].pc = "lookup"
                     THEN [proc[q] EXCEPT !.during = @ \cup {s}]
                     ELSE proc[q]]

Subscribe(p, budget) ==
  /\ Accept(p, budget)
  /\ \E auth \in Verdicts : \E channel \in UserIds :
       /\ auth.ok
       /\ Edge(auth.user, channel) \notin subscriptions
       /\ subscriptions' = subscriptions \cup {Edge(auth.user, channel)}
  /\ proc' = Overlapped(subscriptions')
  /\ Silent
  /\ UNCHANGED <<videos, users, now, issued, revoked>>

Unsubscribe(p, budget) ==
  /\ Accept(p, budget)
  /\ \E auth \in Verdicts : \E channel \in UserIds :
       /\ auth.ok
       /\ Edge(auth.user, channel) \in subscriptions
       /\ subscriptions' = subscriptions \ {Edge(auth.user, channel)}
  /\ proc' = Overlapped(subscriptions')
  /\ Silent
  /\ UNCHANGED <<videos, users, now, issued, revoked>>

\* --------------------------------------------------- getUserChannelProfile
\* $lookup from "subscriptions" with localField _id and the given foreignField
Lookup(id, foreignField) == {e \in subscriptions : e[foreignField] = id}

\* the aggregation had its first $lookup joined on "subscriber"
AggregateJoinedOnSubscriber(username, viewer) ==
  {[id |-> i,
    subscribersCount |-> Cardinality(Lookup(i, "subscriber")),
    channelsSubscribedToCount |-> Cardinality(Lookup(i, "subscriber")),
    isSubscribed |-> viewer \in {e.subscriber : e \in Lookup(i, "subscriber")}] :
     i \in {u \in UserIds : users[u].username = Lower(username)}}

\* the aggregation had $match compared the username as it was given
AggregateExactCase(username, viewer) ==
  {[id |-> i,
    subscribersCount |-> Cardinality(Lookup(i, "channel")),
    channelsSubscribedToCount |-> Cardinality(Lookup(i, "subscriber")),
    isSubscribed |-> viewer \in {e.subscriber : e \in Lookup(i, "channel")}] :
     i \in {u \in UserIds : users[u].username = username}}

\* User.aggregate([$match, $lookup, $lookup, $addFields, $project]): the channels
\* it returns
Aggregate(username, viewer) ==
  {[id |-> i,
    subscribersCount |-> Cardinality(Lookup(i, "channel")),
    channelsSubscribedToCount |-> Cardinality(Lookup(i, "subscriber")),
    isSubscribed |-> viewer \in {e.subscriber : e \in Lookup(i, "channel")}] :
     i \in {u \in UserIds : users[u].username = Lower(username)}}

\* verifyJWT, then the check of req.params.username
ProfileStart(p, budget) ==
  /\ Accept(p, budget)
  /\ \E auth \in Verdicts : \E username \in Handles \cup {""} :
       IF ~auth.ok THEN Reply(p, Unauthorized("profile", auth))
       ELSE IF username = ""
         THEN Reply(p, [Failure("profile", 400, "username is missing") EXCEPT
                          !.presented = auth.token, !.sub = auth.user])
       ELSE /\ proc' = [proc EXCEPT ![p] = [Idle EXCEPT !.pc = "aggregate", !.op = "profile",
                                                       !.uid = auth.user, !.tok = auth.token,
                                                       !.username = username]]
            /\ Silent
  /\ UNCHANGED <<videos, users, now, issued, revoked, subscriptions>>

\* The pipeline asks for no snapshot and runs in no transaction, so the store
\* reads "subscriptions" for each $lookup when that stage runs. $match and the
\* first $lookup: the document with its subscribers, or the 404 of an empty
\* result. `during` keeps the states of "subscriptions" the aggregation has
\* run over.
ChannelLookup(p) ==
  LET me == proc[p]
      channel == Aggregate(me.username, me.uid)
  IN /\ me.pc = "aggregate"
     /\ IF channel = {}
          THEN Reply(p, [Failure("profile", 404, "channel does not exist") EXCEPT
                           !.presented = me.tok, !.sub = me.uid,
                           !.req.username = me.username])
          ELSE /\ proc' = [proc EXCEPT ![p] = [me EXCEPT !.pc = "lookup",
                                                         !.channel = CHOOSE c \in channel : TRUE,
                                                         !.during = {subscriptions}]]
               /\ Silent
     /\ UNCHANGED <<videos, users, now, issued, revoked, started, subscriptions>>

\* the second $lookup, $addFields over both joined arrays, and the reply with
\* channel[0]
ChannelProfile(p) ==
  LET me == proc[p]
      second == CHOOSE c \in Aggregate(me.username, me.uid) : c.id = me.channel.id
  IN /\ me.pc = "lookup"
     /\ Reply(p, [NoResp EXCEPT !.op = "profile", !.status = 200,
                                !.req.username = me.username,
                                !.message = "User channel fetched successfully",
                                !.presented = me.tok, !.sub = me.uid,
                                !.channel = [me.channel EXCEPT
                                               !.channelsSubscribedToCount =
                                                 second.channelsSubscribedToCount]])
     /\ UNCHANGED <<videos, users, now, issued, revoked, started, subscriptions>>

\* ------------------------------------------------------------ video store
\* The videos collection in store order: a video's _id is its place in it, and
\* a removed video keeps its place. An owner of Ownerless refers to no account.
Ownerless == 0
VideoIds == {v \in 1..Len(videos) : videos[v].live}

\* a video is stored, for an account or for none
Publish ==
  /\ Len(videos) < MaxVideos
  /\ \E owner \in UserIds \cup {Ownerless} :
       videos' = Append(videos, [owner |-> owner, live |-> TRUE])
  /\ Silent
  /\ UNCHANGED <<users, now, proc, issued, revoked, started, subscriptions>>

\* a video is deleted
Remove ==
  /\ \E v \in VideoIds : videos' = [videos EXCEPT ![v].live = FALSE]
  /\ Silent
  /\ UNCHANGED <<users, now, proc, issued, revoked, started, subscriptions>>

\* the viewer behind verifyJWT watches a video: its id goes to the end of the
\* viewer's watchHistory, whether it is there already or not
Watch(p, budget) ==
  /\ Accept(p, budget)
  /\ \E auth \in Verdicts : \E v \in VideoIds :
       /\ auth.ok
       /\ Len(users[auth.user].watchHistory) < MaxHistory
       /\ users' = [users EXCEPT ![auth.user].watchHistory = Append(@, v)]
  /\ Silent
  /\ UNCHANGED <<videos, subscriptions, now, proc, issued, revoked>>

\* ---------------------------------------------------------- getWatchHistory
\* $project: {fullName: 1, username: 1, avatar: 1}
Project(id, paths) == [shape |-> "document", id |-> id, fields |-> paths \cup {"_id"}]

\* a path that $first leaves unset
Missing == [shape |-> "missing", id |-> 0, fields |-> {}]

\* the inner $lookup from "users" on owner = _id, with its $project
OwnerLookup(owner) ==
  IF owner \in UserIds THEN <<Project(owner, {"fullName", "username", "avatar"})>> ELSE <<>>

\* $addFields had it kept the joined array
FirstWholeArray(arr) == [shape |-> "array", id |-> Len(arr), fields |-> {}]

\* $first
First(arr) == IF arr = <<>> THEN Missing ELSE arr[1]

\* the outer $lookup had it joined every video
VideoLookupUnmatched(localField) ==
  LET live(v) == videos[v].live
  IN SelectSeq([v \in 1..Len(videos) |-> v], live)

\* the outer $lookup from "videos" with the array watchHistory as localField:
\* the videos whose _id is an element of the array, as the collection yields them
VideoLookup(localField) ==
  LET joined(v) == videos[v].live /\ \E k \in DOMAIN localField : localField[k] = v
  IN SelectSeq([v \in 1..Len(videos) |-> v], joined)

\* User.aggregate([$match, $lookup]): the user documents it returns, each with
\* the joined watchHistory
HistoryAggregate(id) ==
  IF id \notin UserIds THEN <<>>
  ELSE LET joined == VideoLookup(users[id].watchHistory)
       IN <<[watchHistory |->
               [k \in DOMAIN joined |->
                  [video |-> joined[k],
                   owner |-> First(OwnerLookup(videos[joined[k]].owner))]]]>>

\* verifyJWT in front of getWatchHistory
HistoryStart(p, budget) ==
  /\ Accept(p, budget)
  /\ \E auth \in Verdicts : Protected(p, "history", auth, Idle, "history")

\* the aggregation and the reply with user[0].watchHistory
WatchHistory(p) ==
  LET me == proc[p]
      user == HistoryAggregate(me.uid)
  IN /\ me.pc = "history"
     /\ IF user = <<>>
          THEN Fail(p, "history", 500, "Cannot read properties of undefined")
          ELSE Reply(p, [NoResp EXCEPT !.op = "history", !.status = 200,
                                      !.message = "Watch history fetched successfully",
                                      !.presented = me.tok, !.sub = me.uid,
                                      !.history = user[1].watchHistory])
     /\ UNCHANGED <<videos, subscriptions, users, now, issued, revoked, started>>

\* ---------------------------------------------------------- specifications
Step(p, budget) ==
  \/ RegisterStart(p, budget)
  \/ RegisterCreate(p)
  \/ LoginStart(p, budget)
  \/ Generate(p)
  \/ Save(p)
  \/ Respond(p)
  \/ RefreshStart(p, budget)
  \/ LogoutStart(p, budget)
  \/ Logout(p)
  \/ ChangePasswordStart(p, budget)
  \/ ChangePasswordCheck(p)
  \/ ChangePasswordSave(p)
  \/ GetCurrentUser(p, budget)
  \/ UpdateStart(p, budget)
  \/ UpdateAccountDetails(p)
  \/ ImageStart(p, budget)
  \/ ImageUpdate(p)
  \/ Subscribe(p, budget)
  \/ Unsubscribe(p, budget)
  \/ ProfileStart(p, budget)
  \/ ChannelLookup(p)
  \/ ChannelProfile(p)
  \/ HistoryStart(p, budget)
  \/ WatchHistory(p)

Next == Tick(MaxOverlapped) \/ \E p \in Procs : Step(p, MaxOverlapped)

\* requests of different slots overlap
Spec == Init /\ [][Next]_vars

\* one request at a time: a single slot serves them all
SeqNext == Tick(MaxRequests) \/ Step(1, MaxRequests)

SeqSpec == Init /\ [][SeqNext]_vars

\* the request slot p has taken goes on to its handler's next await
Passes(p) == proc'[p].pc # "idle"

\* one viewer's requests, one at a time, over a video store that changes; of
\* the registrations, logins and history requests, those that pass their checks
HistoryNext ==
  \/ RegisterStart(1, MaxHistoryRequests) /\ Passes(1)
  \/ RegisterCreate(1)
  \/ LoginStart(1, MaxHistoryRequests) /\ Passes(1)
  \/ Generate(1)
  \/ Save(1)
  \/ Respond(1)
  \/ Publish
  \/ Remove
  \/ Watch(1, MaxHistoryRequests)
  \/ HistoryStart(1, MaxHistoryRequests) /\ Passes(1)
  \/ WatchHistory(1)

HistorySpec == Init /\ [][HistoryNext]_vars

\* -------------------------------------------------------------- properties
\* the refresh credentials and access credentials the signer can have issued by now
RefreshCredentials == {GenerateRefreshToken(u, t) : u \in UserIds, t \in 0..now}
AccessCredentials == {GenerateAccessToken(u, users[u], t) : u \in UserIds, t \in 0..now}

\* everything a Refresh can be handed
Presentable == TokenInputs \cup RefreshCredentials \cup AccessCredentials

StaleOrReused == "Refresh token is expired or used"

\* C1: after a successful Login a Refresh with the issued credential succeeds, and
\* once a Refresh has succeeded a second Refresh with the credential it consumed
\* fails with StaleOrReused.
C1_SingleUse ==
  /\ (last.op = "login" /\ last.status = 200) => RefreshCheck(last.refreshToken) = ""
  /\ (last.op = "refresh" /\ last.status = 200) => RefreshCheck(last.presented) = StaleOrReused

\* C2: two overlapping Refresh requests that present the same credential never
\* both succeed.
C2_ExactlyOne ==
  \A p, q \in Procs :
    (p # q /\ proc[p].op = "refresh" /\ proc[q].op = "refresh" /\ proc[p].tok = proc[q].tok)
      => ~(proc[p].pc = "respond" /\ proc[q].pc = "respond")

\* C3: a successful Refresh returns, in body and cookie, the refresh credential it
\* stored, so a Refresh with the returned credential succeeds.
C3_ReturnsStored ==
  (last.op = "refresh" /\ last.status = 200) =>
    /\ last.refreshToken = users[last.sub].refreshToken
    /\ last.cookie = users[last.sub].refreshToken
    /\ RefreshCheck(last.refreshToken) = ""

\* C4: once a Logout has completed the stored credential is empty, and no refresh
\* credential issued for the account before that Logout is accepted again.
C4_LogoutRevokes ==
  /\ (last.op = "logout" /\ last.status = 200) => users[last.sub].refreshToken = NoToken
  /\ \A t \in revoked : RefreshCheck(t) # ""

\* C5: in every state, a refresh credential that Refresh would accept is the value
\* stored for its account, so at most one value per account is accepted and none
\* when the stored field is empty; a stored value that has not expired is accepted.
C5_AtMostOne ==
  /\ \A t \in Presentable :
       RefreshCheck(t) = "" => (t # NoToken /\ t.sub \in UserIds /\ t = users[t.sub].refreshToken)
  /\ \A u \in UserIds :
       LET stored == users[u].refreshToken
           accepted == {t \in Presentable : t.sub = u /\ RefreshCheck(t) = ""}
       IN /\ Cardinality(accepted) <= 1
          /\ stored = NoToken => accepted = {}
          /\ (stored # NoToken /\ now < stored.exp) => accepted = {stored}

\* an account whose stored credential is accepted while an earlier credential that
\* was handed out for it is refused
C5_Witness ==
  \E u \in UserIds : \E t \in issued :
    /\ RefreshCheck(users[u].refreshToken) = ""
    /\ t.sub = u /\ t.key = REFRESH_TOKEN_SECRET /\ t # users[u].refreshToken
    /\ RefreshCheck(t) = StaleOrReused

\* C6: when a Login stores its credential over a live one, the credential that was
\* live before is refused with StaleOrReused afterwards and the credential of the
\* Login is accepted.
C6_LoginOverwrites ==
  [][\A p \in Procs : \A old \in Presentable :
       (/\ proc[p].op = "login" /\ proc[p].pc = "save" /\ proc'[p].pc = "respond"
        /\ old = users[proc[p].uid].refreshToken
        /\ RefreshCheck(old) = "")
       => /\ (RefreshCheck(old) = StaleOrReused)'
          /\ (RefreshCheck(proc[p].ref) = "")']_vars

\* C7: verifyJWT never passes a token signed as a refresh credential, in the cookie
\* or in the Authorization header, and refreshAccessToken never goes on with a
\* token signed as an access credential.
C7_ClassesApart ==
  /\ \A t \in Presentable : \A scheme \in {"Bearer", "raw"} :
       t.key = REFRESH_TOKEN_SECRET =>
         /\ ~VerifyJWT(t, [scheme |-> "absent", tok |-> NoToken]).ok
         /\ ~VerifyJWT(NoToken, [scheme |-> scheme, tok |-> t]).ok
  /\ \A t \in Presentable : t.key = ACCESS_TOKEN_SECRET => RefreshCheck(t) # ""
  /\ (last.op \in {"current", "logout", "password", "details", "profile", "history", "avatar", "coverImage"} /\ last.status = 200)
       => last.presented.key # REFRESH_TOKEN_SECRET
  /\ \A p \in Procs : proc[p].op = "refresh" => proc[p].tok.key # ACCESS_TOKEN_SECRET

\* a live refresh credential was presented to getCurrentUser and turned away
C7_Witness ==
  /\ last.op = "current" /\ last.status = 401
  /\ last.presented.key = REFRESH_TOKEN_SECRET
  /\ RefreshCheck(last.presented) = ""

\* C8: the reply to a token that Refresh refused is the reply every other token
\* Refresh refuses would get, and likewise for a token that verifyJWT refused: the
\* cause of the refusal shows in neither status nor reason.
C8_UniformFailure ==
  LET none == [scheme |-> "absent", tok |-> NoToken]
      refused == last.status = 401 /\ last.presented # NoToken /\ last.sub = 0
  IN /\ (last.op = "refresh" /\ refused)
          => \A t \in Presentable \ {NoToken} :
               RefreshCheck(t) # ""
                 => [Failure("refresh", 401, RefreshCheck(t)) EXCEPT !.presented = last.presented]
                      = last
     /\ (last.op = "current" /\ refused)
          => \A t \in Presentable \ {NoToken} :
               ~VerifyJWT(t, none).ok
                 => [Unauthorized("current", VerifyJWT(t, none)) EXCEPT !.presented = last.presented]
                      = last

\* C9: a Login or a Refresh that ends inside the mint-and-store step ends with a
\* status of the 5xx class.
C9_InternalFailure ==
  [][\A p \in Procs :
       (proc[p].pc \in {"gen", "save"} /\ proc'[p].pc = "idle") => last'.status >= 500]_vars

\* C10: a Login that names no account is answered 404 and one that names an account
\* with a password that does not verify is answered 401; either reply carries no
\* credential, and the step leaves the accounts and the handed-out tokens as they
\* were and mints nothing.
C10_LoginRefused ==
  [][(started' # started /\ last'.op = "login")
       => LET req == last'.req
              matching == {i \in UserIds : users[i].username = Lower(req.username)
                                            \/ users[i].email = req.email}
              named == req.username # Absent \/ req.email # Absent
              user == FindOne(req.username, req.email)
          IN /\ (named /\ matching = {}) <=> last'.status = 404
             /\ (named /\ matching # {} /\ ~IsPasswordCorrect(users[user], req.password))
                  <=> last'.status = 401
             /\ last'.status \in {400, 401, 404}
             /\ last'.accessToken = NoToken /\ last'.refreshToken = NoToken
             /\ last'.cookie = NoToken /\ last'.user = NoUser
             /\ users' = users /\ issued' = issued /\ proc' = proc]_vars

\* a wrong password was answered 401 for an account that holds a live credential
C10_Witness ==
  /\ last.op = "login" /\ last.status = 401
  /\ \E u \in UserIds :
       /\ u = FindOne(last.req.username, last.req.email)
       /\ RefreshCheck(users[u].refreshToken) = ""

NoHeader == [scheme |-> "absent", tok |-> NoToken]

\* an access token with a good signature whose subject is not in the directory
Orphan == GenerateAccessToken(Len(users) + 1, [email |-> "x", username |-> "a"], now)

\* the access credentials that have not expired and name an account
LiveAccess(token) ==
  token.key = ACCESS_TOKEN_SECRET /\ now < token.exp /\ token.sub \in UserIds

\* C11: verifyJWT passes a request exactly when it carries a token that is an
\* unexpired access credential of an existing account; a request it turns away is
\* answered 401 with no user attached, and the step starts no handler and changes
\* no account; a handler behind it only ever runs for such a token's account.
C11_AuthGate ==
  [][/\ \A token \in Presentable \cup {Orphan} :
          \A auth \in {VerifyJWT(token, NoHeader),
                        VerifyJWT(NoToken, [scheme |-> "Bearer", tok |-> token])} :
            /\ auth.ok <=> LiveAccess(token)
            /\ auth.ok => auth.user = token.sub
            /\ ~auth.ok => /\ auth.user = 0
                           /\ Unauthorized("current", auth).status = 401
                           /\ Unauthorized("current", auth).user = NoUser
     /\ (started' # started /\ last'.op \in {"current", "logout", "password", "details", "profile", "history", "avatar", "coverImage"})
          => /\ last'.status = 401 <=> ~LiveAccess(last'.presented)
             /\ last'.status = 401
                  => /\ last'.user = NoUser /\ last'.sub = 0
                     /\ proc' = proc /\ users' = users
     /\ \A p \in Procs :
          (proc[p].pc = "idle" /\ proc'[p].pc \in {"unset", "check", "update", "aggregate", "history", "upload"})
            => LiveAccess(proc'[p].tok) /\ proc'[p].uid = proc'[p].tok.sub
     /\ (started' # started /\ last'.op = "current" /\ last'.status = 200)
          => LiveAccess(last'.presented) /\ last'.sub = last'.presented.sub]_vars

\* an expired access token was turned away from logoutUser
C11_Witness ==
  /\ last.op = "logout" /\ last.status = 401 /\ last.message = "jwt expired"
  /\ last.presented.key = ACCESS_TOKEN_SECRET /\ last.presented.sub \in UserIds

\* C12: verifyJWT judges the cookie token whenever there is one, whatever the
\* Authorization header holds, and judges the header's token, the scheme prefix
\* stripped, only when there is no cookie token; so a cookie token it refuses is
\* refused even beside a header token it would pass.
C12_CookieFirst ==
  \A cookie \in TokenInputs : \A header \in Headers :
    /\ cookie # NoToken => /\ ExtractToken(cookie, header) = cookie
                           /\ VerifyJWT(cookie, header) = VerifyJWT(cookie, NoHeader)
    /\ cookie = NoToken => /\ ExtractToken(cookie, header) = header.tok
                           /\ VerifyJWT(cookie, header) = VerifyJWT(header.tok, NoHeader)
    /\ (cookie # NoToken /\ ~VerifyJWT(cookie, NoHeader).ok /\ VerifyJWT(NoToken, header).ok)
         => /\ ~VerifyJWT(cookie, header).ok
            /\ Unauthorized("current", VerifyJWT(cookie, header)).status = 401

\* the last reply is the 401 of getCurrentUser to a request that some client can
\* send now with a cookie token that does not pass and a header token that would
C12_Witness ==
  \E cookie \in TokenInputs \ {NoToken} : \E header \in Headers :
    /\ ~VerifyJWT(cookie, NoHeader).ok
    /\ VerifyJWT(NoToken, header).ok
    /\ last = Unauthorized("current", VerifyJWT(cookie, header))

\* the accounts that hold the handle (as stored, in lower case) or the address
Holders(username, email) ==
  {i \in UserIds : users[i].username = Lower(username) \/ users[i].email = email}

\* C13: a Register that gives every field and names a handle or an address that an
\* account already holds is answered 409, at its existence check and at its
\* create alike, and leaves the stored accounts as they were.
C13_RegisterConflict ==
  [][/\ \A username \in Handles, email \in Emails, password \in Passwords, avatar \in BOOLEAN :
          Holders(username, email) # {}
            => RegisterCheck(username, email, password, avatar).status = 409
     /\ (started' # started /\ last'.op = "register") => users' = users
     /\ \A p \in Procs :
          (proc[p].pc = "create" /\ Holders(proc[p].username, proc[p].email) # {})
            => (proc'[p].pc = "idle" => last'.status = 409 /\ users' = users)]_vars

\* C14: in every state no two accounts hold the same handle and no two hold the
\* same address.
C14_Unique ==
  \A i, j \in UserIds :
    i # j => users[i].username # users[j].username /\ users[i].email # users[j].email

\* a Register passed its existence check and was then stopped at User.create by
\* the account another Register had stored meanwhile
C14_Witness ==
  /\ last.op = "register" /\ last.status = 500
  /\ last.message = "E11000 duplicate key error"
  /\ users # <<>>

\* C15: a ChangePassword whose old password is not the one behind the stored hash
\* ends with 400 "Invalid old password" and leaves every account as it was, so
\* each Login that would have passed before it still passes after it.
C15_InvalidOldPassword ==
  [][\A p \in Procs :
       (proc[p].pc = "check" /\ users[proc[p].uid].password # BcryptHash(proc[p].password))
         => \/ proc'[p] = proc[p]
            \/ /\ proc'[p] = Idle
               /\ last' = Failure("password", 400, "Invalid old password")
               /\ users' = users
               /\ \A h \in Handles, pw \in Passwords :
                    LoginCheck(h, Absent, pw).status = 0
                      => (LoginCheck(h, Absent, pw).status = 0)']_vars

\* a ChangePassword was refused for its old password while the account's own
\* password still opens a Login
C15_Witness ==
  /\ last = Failure("password", 400, "Invalid old password")
  /\ \E h \in Handles, pw \in Passwords : LoginCheck(h, Absent, pw).status = 0

\* C16: when a ChangePassword(old, new) with new # old has stored its password,
\* a Login to that account passes its checks with new and is refused 401 with old.
C16_NewPasswordOnly ==
  [][\A p \in Procs : \A u \in UserIds : \A old, new \in Passwords : \A h \in Handles :
       (/\ proc[p].pc = "hash" /\ proc'[p] = Idle
        /\ u = proc[p].uid /\ old = proc[p].password /\ new = proc[p].newPassword
        /\ new # old /\ Lower(h) = users[u].username)
       => /\ last'.op = "password" /\ last'.status = 200
          /\ (LoginCheck(h, Absent, new) = [status |-> 0, message |-> "", user |-> u])'
          /\ (LoginCheck(h, Absent, old).status = 401)']_vars

\* a ChangePassword from "p" to "q" has just been answered 200
C16_Witness ==
  /\ last.op = "password" /\ last.status = 200
  /\ users[last.sub].password = BcryptHash("q")
  /\ LoginCheck(users[last.sub].username, Absent, "q").status = 0
  /\ LoginCheck(users[last.sub].username, Absent, "p").status = 401

\* C17: no step of a ChangePassword touches a stored refresh token: every refresh
\* token that Refresh accepts before the step is accepted after it.
C17_KeepsRefreshToken ==
  [][(\E p \in Procs : proc'[p] # proc[p] /\ "password" \in {proc[p].op, proc'[p].op})
       => /\ \A u \in UserIds : users'[u].refreshToken = users[u].refreshToken
          /\ \A t \in Presentable : RefreshCheck(t) = "" => (RefreshCheck(t) = "")']_vars

\* a ChangePassword went through on an account whose stored refresh token is
\* still accepted
C17_Witness ==
  /\ last.op = "password" /\ last.status = 200
  /\ users[last.sub].refreshToken \in issued
  /\ RefreshCheck(users[last.sub].refreshToken) = ""

Secrets == {"password", "refreshToken"}

\* C18: the user that verifyJWT attaches to a request, and the user in the reply
\* of loginUser, registerUser and getCurrentUser, has neither the password path
\* nor the refreshToken path of the stored document.
C18_Sanitized ==
  /\ \A auth \in Verdicts : ReqUser(auth).fields \cap Secrets = {}
  /\ \A u \in UserIds : Sanitized(u).fields = DOMAIN users[u] \ Secrets
  /\ last.op \in {"login", "register", "current"} => last.user.fields \cap Secrets = {}
  /\ (last.op \in {"login", "register", "current"} /\ last.status \in {200, 201})
       => last.user.fields = {"username", "email", "watchHistory"}

\* a Login was answered with the user of an account that stores a password hash
\* and a refresh token
C18_Witness ==
  /\ last.op = "login" /\ last.status = 200
  /\ last.user = Sanitized(last.sub)
  /\ users[last.sub].password = BcryptHash("p")
  /\ users[last.sub].refreshToken = last.refreshToken

\* C19: after every step the stored password of every account is the bcrypt hash
\* of a password some request supplied, and a save made by generateAccessAndRefereshTokens
\* for a Login or a Refresh leaves every stored password as it was.
C19_PasswordHashed ==
  [][/\ \A u \in 1..Len(users') :
          /\ users'[u].password.alg = "bcrypt"
          /\ \E pw \in Passwords : users'[u].password = BcryptHash(pw)
     /\ \A p \in Procs :
          (proc[p].pc \in {"gen", "save"} /\ proc'[p] # proc[p])
            => \A u \in UserIds : users'[u].password = users[u].password]_vars

\* a Refresh has saved its token on an account that stores the hash of a changed
\* password
C19_Witness ==
  \E p \in Procs :
    /\ proc[p].op = "refresh" /\ proc[p].pc = "respond"
    /\ users[proc[p].uid].password = BcryptHash("q")
    /\ users[proc[p].uid].refreshToken = proc[p].ref

\* C20: for every existing target and every viewer the aggregation yields
\* subscribersCount = the edges into the target, channelsSubscribedToCount = the
\* edges out of it and isSubscribed = whether the edge viewer -> target is there,
\* so no edges give 0 and false; the reply of getUserChannelProfile carries that
\* document, and after an edge is put in or taken out the aggregation follows it.
C20_ChannelProfile ==
  [][LET Described(target, viewer) ==
          [id |-> target,
           subscribersCount |-> Cardinality({e \in subscriptions : e.channel = target}),
           channelsSubscribedToCount |-> Cardinality({e \in subscriptions : e.subscriber = target}),
           isSubscribed |-> Edge(viewer, target) \in subscriptions]
     IN
     /\ \A h \in Handles : \A viewer \in UserIds :
          Aggregate(h, viewer)
            = {Described(target, viewer) :
                 target \in {u \in UserIds : users[u].username = Lower(h)}}
     /\ (last'.op = "profile" /\ last'.status = 200)
          => /\ last'.channel.id \in UserIds
             /\ subscriptions' = subscriptions
             /\ \E target, viewer \in UserIds :
                  /\ target = last'.channel.id /\ viewer = last'.sub
                  /\ last'.channel = Described(target, viewer)
     /\ subscriptions' # subscriptions
          => \A h \in Handles : \A viewer \in UserIds :
               \A c \in (Aggregate(h, viewer))' :
                 /\ c.isSubscribed <=> Edge(viewer, c.id) \in subscriptions'
                 /\ Edge(viewer, c.id) \in subscriptions' => c.subscribersCount >= 1
                 /\ (\A e \in subscriptions' : e.channel # c.id)
                      => c.subscribersCount = 0 /\ ~c.isSubscribed]_vars

\* getUserChannelProfile answered a viewer who subscribes to another account's
\* channel with that channel
C20_Witness ==
  /\ last.op = "profile" /\ last.status = 200
  /\ last.channel.id # last.sub
  /\ last.channel.isSubscribed
  /\ last.channel.subscribersCount = 1
  /\ last.channel.channelsSubscribedToCount = 0

\* C21: getUserChannelProfile resolves a handle that differs from a stored one
\* only in letter case to that account, and answers 404 exactly when no account
\* has the handle.
C21_HandleMatch ==
  [][/\ \A h \in Handles : \A viewer \in UserIds :
          /\ Aggregate(h, viewer) = Aggregate(Lower(h), viewer)
          /\ {c.id : c \in Aggregate(h, viewer)}
               = {u \in UserIds : Lower(users[u].username) = Lower(h)}
     /\ \A p \in Procs :
          LET owners == {u \in UserIds : Lower(users[u].username) = Lower(proc[p].username)}
          IN /\ (proc[p].pc = "aggregate" /\ proc'[p].pc # "aggregate")
                  => /\ proc'[p].pc = "idle" <=> owners = {}
                     /\ proc'[p].pc = "idle" => last'.op = "profile" /\ last'.status = 404
                     /\ proc'[p].pc # "idle" => proc'[p].channel.id \in owners
             /\ (proc[p].pc = "lookup" /\ proc'[p].pc # "lookup")
                  => /\ last'.op = "profile" /\ last'.status = 200
                     /\ last'.channel.id \in owners]_vars

\* the channel of the account stored as "a" was asked for as "A" and returned
C21_Witness ==
  /\ last.op = "profile" /\ last.status = 200
  /\ last.req.username = "A"
  /\ last.channel.id \in UserIds
  /\ users[last.channel.id].username = "a"

\* C22: the entries getWatchHistory returns stand in the order of the viewer's
\* stored watchHistory: of any two entries, the earlier one's video id comes
\* before the later one's somewhere in the stored sequence.
C22_StoredOrder ==
  [][\A p \in Procs :
       (proc[p].pc = "history" /\ proc'[p].pc = "idle" /\ last'.status = 200)
         => LET stored == users[proc[p].uid].watchHistory
                got == last'.history
            IN \A i, j \in DOMAIN got :
                 i < j => \E a, b \in DOMAIN stored :
                            /\ a < b
                            /\ stored[a] = got[i].video
                            /\ stored[b] = got[j].video]_vars

\* C23: every entry of a getWatchHistory reply has for owner one document with
\* fullName, username and avatar, or nothing, never an array; the entry has no
\* owner exactly when the video's owner is no account, and the entries are of
\* exactly the stored ids whose video exists.
C23_OwnerCollapsed ==
  [][/\ \A owner \in UserIds \cup {Ownerless} :
          /\ First(OwnerLookup(owner)).shape \in {"document", "missing"}
          /\ First(OwnerLookup(owner)).shape = "missing" <=> owner \notin UserIds
     /\ \A p \in Procs :
          (proc[p].pc = "history" /\ proc'[p].pc = "idle" /\ last'.status = 200)
            => LET stored == users[proc[p].uid].watchHistory
                   got == last'.history
               IN /\ {got[k].video : k \in DOMAIN got}
                       = {stored[k] : k \in DOMAIN stored} \cap VideoIds
                  /\ \A k \in DOMAIN got :
                       LET entry == got[k]
                           owner == videos[entry.video].owner
                       IN /\ entry.owner.shape \in {"document", "missing"}
                          /\ entry.owner.shape = "missing" <=> owner \notin UserIds
                          /\ entry.owner.shape = "document"
                               => /\ entry.owner.id = owner
                                  /\ entry.owner.fields \ {"_id"}
                                       = {"fullName", "username", "avatar"}]_vars

\* a viewer who watched a video of no account and a video since removed got the
\* one entry, without an owner
C23_Witness ==
  /\ last.op = "history" /\ last.status = 200
  /\ Len(last.history) = 1
  /\ last.history[1].owner = Missing
  /\ Len(users[last.sub].watchHistory) = 2
  /\ \E k \in 1..2 : users[last.sub].watchHistory[k] \notin VideoIds

\* C24: a viewer whose stored watchHistory is empty gets 200 and an empty
\* sequence.
C24_EmptyHistory ==
  [][/\ VideoLookup(<<>>) = <<>>
     /\ \A p \in Procs :
          (proc[p].pc = "history" /\ proc'[p].pc = "idle"
             /\ users[proc[p].uid].watchHistory = <<>>)
            => /\ last'.op = "history" /\ last'.status = 200
               /\ last'.history = <<>>]_vars

\* a viewer who watched nothing asked for the history while a video was stored
C24_Witness ==
  /\ last.op = "history" /\ last.status = 200
  /\ last.history = <<>>
  /\ last.sub \in UserIds
  /\ users[last.sub].watchHistory = <<>>
  /\ VideoIds # {}

\* C25: per account the stored refresh credential goes from empty to live only
\* by a login, and refreshAccessToken goes on only for the live credential the
\* account holds; so an account that never logged in, or that logged out and
\* has not logged in again, is refreshed by nothing.
C25_SessionMachine ==
  [][/\ \A u \in UserIds :
          (users[u].refreshToken = NoToken /\ users'[u].refreshToken # NoToken)
            => \E p \in Procs : /\ proc[p].pc = "save" /\ proc[p].op = "login"
                                /\ proc[p].uid = u
     /\ \A p \in Procs :
          (proc[p].pc = "idle" /\ proc'[p].op = "refresh")
            => /\ users[proc'[p].uid].refreshToken # NoToken
               /\ users[proc'[p].uid].refreshToken = proc'[p].tok]_vars

\* C26: a refreshAccessToken whose account was logged out after it compared the
\* stored credential and before it saved leaves the stored credential empty.
C26_NoResurrection ==
  [][\A p \in Procs :
       (/\ proc[p].op = "refresh" /\ proc[p].pc = "save" /\ proc'[p].pc # "save"
        /\ users[proc[p].uid].refreshToken = NoToken)
         => users'[proc[p].uid].refreshToken = NoToken]_vars

\* C27: when a login and a refresh of one account overlap, the later of their
\* two saves leaves its own refresh credential stored, and the credential the
\* other one minted is a different value that refreshAccessToken then refuses.
C27_LoginRefreshRace ==
  [][\A p, q \in Procs :
       (/\ p # q /\ proc[p].uid = proc[q].uid
        /\ {proc[p].op, proc[q].op} = {"login", "refresh"}
        /\ proc[q].pc = "respond"
        /\ proc[p].pc = "save" /\ proc'[p].pc = "respond")
         => /\ users'[proc[p].uid].refreshToken = proc[p].ref
            /\ proc[q].ref # proc[p].ref
            /\ \A t \in {proc[q].ref} : (RefreshCheck(t))' # ""]_vars

\* C28: a refresh credential that generateAccessAndRefereshTokens mints differs
\* from the one stored for the account and from every one handed out before.
C28_FreshCredential ==
  [][\A p \in Procs :
       (proc[p].pc = "gen" /\ proc'[p].pc = "save")
         => /\ proc'[p].ref # users[proc[p].uid].refreshToken
            /\ proc'[p].ref \notin issued]_vars

\* C29: a refreshAccessToken that is refused writes nothing: the stored refresh
\* credentials are as before, and whatever refreshAccessToken accepted before the
\* refusal it accepts after it.
C29_FailedRefreshFrame ==
  [][(last'.op = "refresh" /\ last'.status # 200)
       => /\ users' = users
          /\ \A t \in Presentable : (RefreshCheck(t))' = RefreshCheck(t)]_vars

\* a credential that a later login had replaced was refused as stale, and the
\* credential of that login is still accepted
C29_Witness ==
  /\ last.op = "refresh" /\ last.status = 401 /\ last.message = StaleOrReused
  /\ last.presented.key = REFRESH_TOKEN_SECRET
  /\ \E t \in issued :
       /\ t.sub = last.presented.sub /\ t # last.presented
       /\ RefreshCheck(t) = ""

\* C30: whether verifyJWT passes an access credential depends on its signature,
\* its expiry and its account being there, and not on the stored refresh
\* credential: an unexpired access credential that was handed out passes, and a
\* step that only rewrites or unsets refresh credentials changes no verdict.
C30_AccessIndependent ==
  [][/\ \A t \in issued :
          (t.key = ACCESS_TOKEN_SECRET /\ now < t.exp)
            => /\ VerifyJWT(t, NoHeader).ok
               /\ VerifyJWT(t, NoHeader).user = t.sub
     /\ (now' = now /\ Len(users') = Len(users))
          => \A t \in issued \cup AccessCredentials \cup {Malformed, Forged(1)} :
               (VerifyJWT(t, NoHeader))' = VerifyJWT(t, NoHeader)
     /\ (started' # started /\ last'.op = "current" /\ LiveAccess(last'.presented))
          => last'.status = 200 /\ last'.sub = last'.presented.sub]_vars

\* getCurrentUser answered an account that had logged out and holds no refresh
\* credential, on the access credential of its login
C30_Witness ==
  /\ last.op = "current" /\ last.status = 200
  /\ last.presented \in issued
  /\ users[last.sub].refreshToken = NoToken
  /\ \E r \in revoked : r.sub = last.sub

\* C31: the user in the reply of every handler that returns one (loginUser,
\* registerUser, getCurrentUser, updateAccountDetails, updateUserAvatar,
\* updateUserCoverImage) has neither the password nor the refreshToken of the
\* stored document.
C31_NoSecretsReturned ==
  (/\ last.op \in {"login", "register", "current", "details", "avatar", "coverImage"}
   /\ last.status \in {200, 201})
    => last.user.fields \cap Secrets = {}

\* C32: getWatchHistory returns one entry for every element of the stored
\* watchHistory whose video exists, so as many entries as there are such
\* elements, an id stored k times counted k times.
C32_EntryPerElement ==
  [][\A p \in Procs :
       (proc[p].pc = "history" /\ proc'[p].pc = "idle" /\ last'.status = 200)
         => LET stored == users[proc[p].uid].watchHistory
            IN Len(last'.history)
                 = Cardinality({k \in DOMAIN stored : stored[k] \in VideoIds})]_vars

\* C33: a channel that getUserChannelProfile returns has isSubscribed only with
\* a subscribersCount of at least 1, and its two counts and its flag are those
\* of one state that "subscriptions" was in while the aggregation ran.
C33_OneState ==
  [][\A p \in Procs :
       (proc[p].pc = "lookup" /\ proc'[p].pc = "idle" /\ last'.status = 200)
         => LET got == last'.channel
                viewer == proc[p].uid
                In(s) == [id |-> got.id,
                          subscribersCount |->
                            Cardinality({e \in s : e.channel = got.id}),
                          channelsSubscribedToCount |->
                            Cardinality({e \in s : e.subscriber = got.id}),
                          isSubscribed |-> Edge(viewer, got.id) \in s]
            IN /\ got.isSubscribed => got.subscribersCount >= 1
               /\ \E s \in proc[p].during : got = In(s)]_vars

====
